---- MODULE Spec2Model ----
(***************************************************************************)
(* Model of py21cmmc/mcmc.py: build_computation_chain and run_mcmc.        *)
(*                                                                         *)
(* run_mcmc is one sequential function; it is cut here into the steps at   *)
(* which its side effects become visible (directory creation, descriptor   *)
(* read, chain assembly, descriptor write, setup, engine invocation), so   *)
(* that the order of those effects can be stated.  The collaborators the   *)
(* function calls (the file system, the YAML (de)serialiser, the chain's   *)
(* setup/build_model_data/computeLikelihoods, the sampling engines) are    *)
(* modelled by the outcomes they can hand back to run_mcmc.                *)
(***************************************************************************)
EXTENDS Integers, Sequences, FiniteSets, TLC

\* ---------------------------------------------------------------- bounds
\* number of run_mcmc calls made one after the other on the same file system
MaxRuns == 2
\* number of points an engine hands to its closures in one run
MaxEvals == 2
\* largest coordinate of a point handed to a closure (the smallest is 0)
MaxCoord == 3

\* ------------------------------------------------------------ file system
Root == <<>>
OutDir == <<"out">>

Parent(p) == SubSeq(p, 1, Len(p) - 1)

\* os.path.join(datadir, model_name)
PathJoin(dir, name) == dir \o <<name>>

ModelName == "21CMMC"

NoDesc == [cores |-> <<>>, lks |-> <<>>, params |-> [keys |-> <<>>, values |-> <<>>]]

\* no file at <datadir>/<model_name>.LCC.yml
NoFile == [kind |-> "absent", desc |-> NoDesc]
\* a descriptor file that was opened for writing (truncated) but whose dump failed
Corrupt == [kind |-> "corrupt", desc |-> NoDesc]

\* os.mkdir(p): "FileExistsError", "FileNotFoundError" (no parent), or "ok"
MkdirOutcome(ds, p) ==
  IF p \in ds THEN "FileExistsError"
  ELSE IF Parent(p) \notin ds THEN "FileNotFoundError"
  ELSE "ok"

\* --------------------------------------------------------------- inputs
\* value of a likelihood module's _simulate attribute; "absent": no such attribute
SimVals == {"true", "false", "absent"}

\* the likelihood_modules lists a caller passes (one entry per module)
LkLists ==
  { <<"true">>, <<"false">>, <<"absent">>,
    <<"true", "false">>, <<"absent", "true">>, <<"true", "true">> }

CoreLists == {<<"core">>}

\* caller's params dict, in insertion order: name -> (val, min, max, width)
ParamDicts ==
  { << <<"a", <<1, 1, 2, 1>> >> >>,
    << <<"a", <<1, 1, 2, 1>> >>, <<"b", <<2, 2, 3, 1>> >> >> }

\* Params(*[(k, v) for k, v in params.items()])
MakeParams(d) ==
  [keys |-> [i \in 1..Len(d) |-> d[i][1]],
   values |-> [i \in 1..Len(d) |-> d[i][2]]]

\* params[i][1] and params[i][2] of the code (0-based tuple positions 1 and 2)
Lower(ps, i) == ps.values[i][2]
Upper(ps, i) == ps.values[i][3]

Coords == 0..MaxCoord
Points(n) == [1..n -> Coords]

NoChain == [cores |-> <<>>, lks |-> <<>>, params |-> MakeParams(<<>>), setups |-> -1]

ArgSets ==
  [use_multinest : BOOLEAN, use_zeus : BOOLEAN, continue_sampling : BOOLEAN,
   core_modules : CoreLists, likelihood_modules : LkLists, params : ParamDicts]

NoArgs ==
  [use_multinest |-> FALSE, use_zeus |-> FALSE, continue_sampling |-> FALSE,
   core_modules |-> <<>>, likelihood_modules |-> <<>>, params |-> <<>>]

NoPrev == [cores |-> <<>>, lks |-> <<>>, params |-> <<>>]

NoEval ==
  [n |-> 0, p |-> <<>>, ret |-> "none", build |-> "notcalled", comp |-> "notcalled",
   lik |-> 0, sim |-> 0, lik0 |-> 0, sim0 |-> 0]

NoOpts == [pool |-> "unread", ndim |-> 0]

VARIABLES
  dirs,      \* directories that exist
  file,      \* <datadir>/<model_name>.LCC.yml: NoFile, Corrupt or a dumped descriptor
  runs,      \* run_mcmc calls started so far
  pc,        \* position inside run_mcmc
  args,      \* arguments of the running call
  datadir,   \* the local variable datadir (rebound on line 193)
  chain,     \* the LikelihoodComputationChain of the running call
  log,       \* side effects of the running call, in order
  opts,      \* what the running call found in mcmc_options: pool, ndim
  pool,      \* the pool handed to the sampler
  ev,        \* closure evaluations of the running call
  err,       \* exception that left run_mcmc, "none" if none
  ret,       \* return value of run_mcmc
  prev       \* the preceding call's inputs, if it was a default-backend run with
             \* continue_sampling that dumped its descriptor; NoPrev otherwise

vars == <<dirs, file, runs, pc, args, datadir, chain, log, opts, pool, ev, err, ret, prev>>

FilePrefix == PathJoin(OutDir, ModelName)

DefaultBackend(a) == ~(a.use_multinest \/ a.use_zeus)

\* ------------------------------------------------- collaborators' values
\* what yaml.dump(chain, f) stores and yaml.load(f) gives back: the chain's
\* identity (module configs, in order, and the ParameterSet)
Descriptor(c) == [cores |-> c.cores, lks |-> c.lks, params |-> c.params]

\* old_chain != chain
ChainsDiffer(old, c) == old # Descriptor(c)

\* ------------------------------------------------ build_computation_chain
build_computation_chain(core_modules, likelihood_modules, params, setup) ==
  [cores |-> core_modules, lks |-> likelihood_modules, params |-> params,
   setups |-> IF setup THEN 1 ELSE 0]

\* ------------------------------------------------------------- run_mcmc
Init ==
  /\ dirs \in {{Root}, {Root, OutDir}, {Root, OutDir, OutDir \o <<"MultiNest">>}}
  /\ file = NoFile
  /\ runs = 0
  /\ pc = "idle"
  /\ args = NoArgs
  /\ datadir = OutDir
  /\ chain = NoChain
  /\ log = <<>>
  /\ opts = NoOpts
  /\ pool = "none"
  /\ ev = NoEval
  /\ err = "none"
  /\ ret = "none"
  /\ prev = NoPrev

Raise(e) == pc' = "raised" /\ err' = e

\* the inputs of the call that just ended, kept when it was a default-backend
\* run with continue_sampling whose descriptor dump succeeded
Remember ==
  IF /\ pc \in {"done", "raised"}
     /\ DefaultBackend(args) /\ args.continue_sampling
     /\ \E i \in 1..Len(log) : log[i] = "dump"
  THEN [cores |-> args.core_modules, lks |-> args.likelihood_modules,
        params |-> args.params]
  ELSE NoPrev

\* a caller invokes run_mcmc(core_modules, likelihood_modules, params, ...)
Enter(a) ==
  /\ pc \in {"idle", "done", "raised"}
  /\ runs' = runs + 1
  /\ args' = a
  /\ datadir' = OutDir
  /\ chain' = NoChain
  /\ log' = <<>>
  /\ opts' = NoOpts
  /\ pool' = "none"
  /\ ev' = NoEval
  /\ err' = "none"
  /\ ret' = "none"
  /\ prev' = Remember
  /\ pc' = "validate"
  /\ UNCHANGED <<dirs, file>>

Call == runs < MaxRuns /\ \E a \in ArgSets : Enter(a)

CallOnce == runs = 0 /\ \E a \in ArgSets : Enter(a)

\* a validation that lets both flags through
ValidateUnchecked ==
  /\ pc = "validate"
  /\ pc' = IF args.use_multinest THEN "multinest_init" ELSE "mkdir"
  /\ UNCHANGED <<dirs, file, runs, args, datadir, chain, log, opts, pool, ev, err, ret, prev>>

\* lines 177-181
Validate ==
  /\ pc = "validate"
  /\ IF args.use_multinest /\ args.use_zeus
     THEN Raise("ValueError")
     ELSE /\ pc' = IF args.use_multinest THEN "multinest_init" ELSE "mkdir"
          /\ err' = err
  /\ UNCHANGED <<dirs, file, runs, args, datadir, chain, log, opts, pool, ev, ret, prev>>

\* lines 183-197: options, datadir = datadir + "/MultiNest/", import pymultinest
MultinestInit ==
  /\ pc = "multinest_init"
  /\ datadir' = datadir \o <<"MultiNest">>
  /\ \E importable \in BOOLEAN :
       IF importable THEN pc' = "mkdir" /\ err' = err ELSE Raise("ImportError")
  /\ UNCHANGED <<dirs, file, runs, args, chain, log, opts, pool, ev, ret, prev>>

\* lines 198-201: try: mkdir(datadir) except FileExistsError: pass
Mkdir ==
  /\ pc = "mkdir"
  /\ log' = Append(log, "mkdir")
  /\ LET out == MkdirOutcome(dirs, datadir) IN
       /\ dirs' = IF out = "ok" THEN dirs \cup {datadir} ELSE dirs
       /\ IF out = "FileNotFoundError"
          THEN Raise("FileNotFoundError")
          ELSE /\ pc' = IF args.use_zeus THEN "zeus_init" ELSE "assemble"
               /\ err' = err
  /\ UNCHANGED <<file, runs, args, datadir, chain, opts, pool, ev, ret, prev>>

\* lines 203-242: options, walker start positions params[i] for i < ndim, import zeus
ZeusInit ==
  /\ pc = "zeus_init"
  /\ \E ndim \in 1..2, importable \in BOOLEAN :
       /\ opts' = [opts EXCEPT !.ndim = ndim]
       /\ IF ndim > Len(args.params) THEN Raise("IndexError")
          ELSE IF ~importable THEN Raise("ImportError")
          ELSE pc' = "assemble" /\ err' = err
  /\ UNCHANGED <<dirs, file, runs, args, datadir, chain, log, pool, ev, ret, prev>>

\* lines 244-250
Assemble ==
  /\ pc = "assemble"
  /\ chain' = build_computation_chain(args.core_modules, args.likelihood_modules,
                                      MakeParams(args.params), FALSE)
  /\ log' = Append(log, "assemble")
  /\ pc' = "continuation"
  /\ UNCHANGED <<dirs, file, runs, args, datadir, opts, pool, ev, err, ret, prev>>

\* a forcing loop that stops after the first module
ForceFirstOnly(lks) ==
  [i \in 1..Len(lks) |-> IF i = 1 /\ lks[i] = "true" THEN "false" ELSE lks[i]]

\* lines 269-277: every module whose _simulate is set gets _simulate = False
ForceSimulateOff(lks) ==
  [i \in 1..Len(lks) |-> IF lks[i] = "true" THEN "false" ELSE lks[i]]

\* lines 269-277 applied to the chain, then on to the descriptor write
ForceAndGoOn ==
  /\ chain' = [chain EXCEPT !.lks = ForceSimulateOff(chain.lks)]
  /\ pc' = "write"
  /\ err' = err

\* a continuation check whose handler catches every exception, the mismatch included
ContinuationSwallows ==
  /\ pc = "continuation"
  /\ IF args.continue_sampling /\ ~(args.use_multinest \/ args.use_zeus)
     THEN /\ log' = IF file.kind = "chain" THEN log \o <<"open_r", "load">>
                    ELSE Append(log, "open_r")
          /\ ForceAndGoOn
     ELSE /\ pc' = "write"
          /\ UNCHANGED <<log, chain, err>>
  /\ UNCHANGED <<dirs, file, runs, args, datadir, opts, pool, ev, ret, prev>>

\* a continuation check that clears the flags only after a successful comparison
ContinuationForcesOnMatch ==
  /\ pc = "continuation"
  /\ IF args.continue_sampling /\ ~(args.use_multinest \/ args.use_zeus)
     THEN \/ /\ file.kind = "absent"
             /\ log' = Append(log, "open_r")
             /\ pc' = "write"
             /\ UNCHANGED <<chain, err>>
          \/ /\ file.kind = "chain"
             /\ log' = log \o <<"open_r", "load">>
             /\ IF ChainsDiffer(file.desc, chain)
                THEN Raise("RuntimeError") /\ chain' = chain
                ELSE ForceAndGoOn
          \/ /\ file.kind = "corrupt"
             /\ log' = Append(log, "open_r")
             /\ \E e \in {"RuntimeError", "YAMLError"} : Raise(e)
             /\ chain' = chain
     ELSE /\ pc' = "write"
          /\ UNCHANGED <<log, chain, err>>
  /\ UNCHANGED <<dirs, file, runs, args, datadir, opts, pool, ev, ret, prev>>

\* lines 252-277.  The read has three outcomes: no file (FileNotFoundError, caught),
\* a loaded descriptor (compared with the chain), or a truncated file (yaml.load
\* gives None, which differs from the chain, or fails on a partial document).
\* The forcing loop is outside the try: it runs whenever the check does not raise.
Continuation ==
  /\ pc = "continuation"
  /\ IF args.continue_sampling /\ ~(args.use_multinest \/ args.use_zeus)
     THEN \/ /\ file.kind = "absent"
             /\ log' = Append(log, "open_r")
             /\ ForceAndGoOn
          \/ /\ file.kind = "chain"
             /\ log' = log \o <<"open_r", "load">>
             /\ IF ChainsDiffer(file.desc, chain)
                THEN Raise("RuntimeError") /\ chain' = chain
                ELSE ForceAndGoOn
          \/ /\ file.kind = "corrupt"
             /\ log' = Append(log, "open_r")
             /\ \E e \in {"RuntimeError", "YAMLError"} : Raise(e)
             /\ chain' = chain
     ELSE /\ pc' = "write"
          /\ UNCHANGED <<log, chain, err>>
  /\ UNCHANGED <<dirs, file, runs, args, datadir, opts, pool, ev, ret, prev>>

\* a descriptor write whose failure is not caught
WriteDescriptorFatal ==
  /\ pc = "write"
  /\ \E out \in {"ok", "open_fails", "dump_fails"} :
       /\ (OutDir \notin dirs) => (out = "open_fails")
       /\ file' = CASE out = "ok" -> [kind |-> "chain", desc |-> Descriptor(chain)]
                    [] out = "open_fails" -> file
                    [] out = "dump_fails" -> Corrupt
       /\ log' = IF out = "ok" THEN log \o <<"open_w", "dump">>
                 ELSE Append(log, "open_w")
       /\ IF out = "ok" THEN pc' = "setup" /\ err' = err ELSE Raise("OSError")
  /\ UNCHANGED <<dirs, runs, args, datadir, chain, opts, pool, ev, ret, prev>>

\* lines 279-289: open(file_prefix + ".LCC.yml", "w"); yaml.dump(chain, f);
\* except Exception: warn and go on
WriteDescriptor ==
  /\ pc = "write"
  /\ \E out \in {"ok", "open_fails", "dump_fails"} :
       /\ (OutDir \notin dirs) => (out = "open_fails")
       /\ file' = CASE out = "ok" -> [kind |-> "chain", desc |-> Descriptor(chain)]
                    [] out = "open_fails" -> file
                    [] out = "dump_fails" -> Corrupt
       /\ log' = IF out = "ok" THEN log \o <<"open_w", "dump">>
                 ELSE Append(log, "open_w")
  /\ pc' = "setup"
  /\ UNCHANGED <<dirs, runs, args, datadir, chain, opts, pool, ev, err, ret, prev>>

\* lines 291-295: chain.setup(), which runs the modules' own setup and may fail
Setup ==
  /\ pc = "setup"
  /\ log' = Append(log, "setup")
  /\ \E ok \in BOOLEAN :
       IF ok
       THEN /\ chain' = [chain EXCEPT !.setups = @ + 1]
            /\ pc' = "backend" /\ err' = err
       ELSE /\ chain' = chain
            /\ Raise("SetupError")
  /\ UNCHANGED <<dirs, file, runs, args, datadir, opts, pool, ev, ret, prev>>

\* ------------------------------------------------------------- closures
\* outcomes of chain.build_model_data(...) and chain.computeLikelihoods(...)
BuildOutcomes == {"data", "ParameterError", "Exception"}
ComputeOutcomes == {"loglike", "ParameterError", "Exception"}

\* a closure without the except clause
likelihoodUncaught(b, c) ==
  IF b # "data" THEN "raise"
  ELSE IF c # "loglike" THEN "raise"
  ELSE "loglike"

\* lines 299-307 and 345-353: try: computeLikelihoods(build_model_data(Params(...)))
\* except ParameterError: return -inf.  "raise": the exception leaves the closure
likelihood(b, c) ==
  IF b = "ParameterError" THEN "-inf"
  ELSE IF b = "Exception" THEN "raise"
  ELSE IF c = "ParameterError" THEN "-inf"
  ELSE IF c = "Exception" THEN "raise"
  ELSE "loglike"

\* lines 339-343, the loop from index i on: TRUE iff some p[j], j >= i, is out of bounds
RECURSIVE PriorFrom(_, _, _)
PriorFrom(p, ps, i) ==
  IF i > Len(p) THEN FALSE
  ELSE IF (p[i] > Upper(ps, i)) \/ (p[i] < Lower(ps, i)) THEN TRUE
  ELSE PriorFrom(p, ps, i + 1)

\* a prior check that forgets the lower bound
priorUpperOnly(p, ps) == <<p, \E i \in 1..Len(p) : p[i] > Upper(ps, i)>>

\* lines 339-343: returns (p, inf)
prior(p, ps) == <<p, PriorFrom(p, ps, 1)>>

\* lines 355-362; the result and whether likelihood(p) was called
posterior(p, ps, b, c) ==
  IF prior(p, ps)[2]
  THEN [ret |-> "-inf", called |-> FALSE]
  ELSE [ret |-> likelihood(b, c), called |-> TRUE]

\* the record of one closure call: the point, the result, the collaborators'
\* outcomes, and the call counters before (lik0, sim0) and after (lik, sim)
Evaluated(p, r, called, b, c) ==
  [n |-> ev.n + 1, p |-> p, ret |-> r,
   build |-> IF called THEN b ELSE "notcalled",
   comp |-> IF called /\ b = "data" THEN c ELSE "notcalled",
   lik |-> IF called THEN ev.lik + 1 ELSE ev.lik,
   sim |-> IF called THEN ev.sim + 1 ELSE ev.sim,
   lik0 |-> ev.lik, sim0 |-> ev.sim]

\* ------------------------------------------------------------- backends
\* lines 297, 313-329: run(likelihood, prior, ..., outputfiles_basename=datadir + model_name)
MultinestRun ==
  /\ pc = "backend"
  /\ args.use_multinest
  /\ log' = Append(log, "engine")
  /\ pc' = "engine"
  /\ UNCHANGED <<dirs, file, runs, args, datadir, chain, opts, pool, ev, err, ret, prev>>

\* the engine hands a point to the likelihood closure, lines 299-307
MultinestLikelihood ==
  /\ pc = "engine"
  /\ args.use_multinest
  /\ ev.n < MaxEvals
  /\ \E p \in Points(Len(chain.params.keys)), b \in BuildOutcomes, c \in ComputeOutcomes :
       LET r == likelihood(b, c) IN
         /\ ev' = Evaluated(p, r, TRUE, b, c)
         /\ IF r = "raise" THEN Raise("Exception") ELSE UNCHANGED <<pc, err>>
  /\ UNCHANGED <<dirs, file, runs, args, datadir, chain, log, opts, pool, ret, prev>>

\* lines 330-335: return 1; an OSError of the engine becomes an ImportError
MultinestReturn ==
  /\ pc = "engine"
  /\ args.use_multinest
  /\ \E oserror \in BOOLEAN :
       IF oserror
       THEN Raise("ImportError") /\ ret' = ret
       ELSE pc' = "done" /\ ret' = "1" /\ err' = err
  /\ UNCHANGED <<dirs, file, runs, args, datadir, chain, log, opts, pool, ev, prev>>

\* lines 337, 364-381: zeus.EnsembleSampler(nwalkers, ndim, posterior, ..., pool=pool);
\* sampler.run_mcmc(start, nsteps)
ZeusRun ==
  /\ pc = "backend"
  /\ args.use_zeus
  /\ \E supplied \in BOOLEAN :
       /\ opts' = [opts EXCEPT !.pool = IF supplied THEN "caller" ELSE "None"]
       /\ pool' = IF supplied THEN "caller" ELSE "None"
  /\ log' = Append(log, "engine")
  /\ pc' = "engine"
  /\ UNCHANGED <<dirs, file, runs, args, datadir, chain, ev, err, ret, prev>>

\* the engine hands a point to the posterior closure, lines 355-362
ZeusPosterior ==
  /\ pc = "engine"
  /\ args.use_zeus
  /\ ev.n < MaxEvals
  /\ \E p \in Points(opts.ndim), b \in BuildOutcomes, c \in ComputeOutcomes :
       LET r == posterior(p, chain.params, b, c) IN
         /\ ev' = Evaluated(p, r.ret, r.called, b, c)
         /\ IF r.ret = "raise" THEN Raise("Exception") ELSE UNCHANGED <<pc, err>>
  /\ UNCHANGED <<dirs, file, runs, args, datadir, chain, log, opts, pool, ret, prev>>

\* line 382
ZeusReturn ==
  /\ pc = "engine"
  /\ args.use_zeus
  /\ pc' = "done"
  /\ ret' = "sampler"
  /\ UNCHANGED <<dirs, file, runs, args, datadir, chain, log, opts, pool, ev, err, prev>>

\* lines 385-388: pool = mcmc_options.pop("pool", ProcessPoolExecutor(max_workers=...)).
\* The default argument is an expression: the executor is constructed before pop
\* looks the key up, whether or not the caller supplied a pool.
ProvidePool(supplied) ==
  [created |-> <<"pool">>, pool |-> IF supplied THEN "caller" ELSE "new"]

\* lines 384-402: pool, sampler_cls(...), sampler.startSampling(), return sampler
DefaultRun ==
  /\ pc = "backend"
  /\ ~args.use_multinest /\ ~args.use_zeus
  /\ \E supplied \in BOOLEAN :
       LET got == ProvidePool(supplied) IN
         /\ opts' = [opts EXCEPT !.pool = IF supplied THEN "caller" ELSE "None"]
         /\ pool' = got.pool
         /\ log' = log \o got.created \o <<"engine">>
  /\ pc' = "done"
  /\ ret' = "sampler"
  /\ UNCHANGED <<dirs, file, runs, args, datadir, chain, ev, err, prev>>

Steps ==
  \/ Validate \/ MultinestInit \/ Mkdir \/ ZeusInit \/ Assemble \/ Continuation
  \/ WriteDescriptor \/ Setup \/ MultinestRun \/ MultinestReturn \/ ZeusRun
  \/ ZeusReturn \/ DefaultRun

\* successive run_mcmc calls on one file system
Next == Call \/ Steps

Spec == Init /\ [][Next]_vars

\* one run_mcmc call, with the points its engine hands to the closures
NextClosures == CallOnce \/ Steps \/ MultinestLikelihood \/ ZeusPosterior

SpecClosures == Init /\ [][NextClosures]_vars

\* ================================================================ claims
Has(e) == \E i \in 1..Len(log) : log[i] = e

Count(e) == Cardinality({i \in 1..Len(log) : log[i] = e})

\* position of the first e in log (0 if none)
First(e) == IF Has(e) THEN CHOOSE i \in 1..Len(log) : log[i] = e /\ \A j \in 1..(i - 1) : log[j] # e
            ELSE 0

InCall == pc # "idle"

BothFlags == InCall /\ args.use_multinest /\ args.use_zeus

DefaultContinue == InCall /\ ~args.use_multinest /\ ~args.use_zeus /\ args.continue_sampling

\* C1: a call with use_multinest and use_zeus both true ends in ValueError, and
\* up to and at that moment no mkdir was called, no directory or descriptor file
\* changed, no descriptor was read, no chain was assembled, setup was not called
\* and no engine was invoked or handed a point.
C1_BothFlagsRejectedFirst ==
  /\ [](BothFlags =>
          /\ pc \in {"validate", "raised"}
          /\ (pc = "raised" => err = "ValueError")
          /\ log = <<>>
          /\ chain = NoChain
          /\ ev = NoEval
          /\ pool = "none")
  /\ [][(BothFlags /\ pc = "validate") =>
          (pc' = "raised" /\ dirs' = dirs /\ file' = file)]_vars

C1_Witness ==
  /\ BothFlags /\ pc = "raised" /\ err = "ValueError"
  /\ runs = 2 /\ file.kind = "chain"

\* C2: in a default-backend run with continue_sampling, when the descriptor file
\* holds a chain that differs from the current one (in core modules, likelihood
\* module configs or ParameterSet), the continuation step raises RuntimeError,
\* leaves the file as it was, and the call ends without a descriptor write,
\* a setup call, a pool or an engine invocation.
C2_MismatchRaisesBeforeSetup ==
  /\ [][(/\ pc = "continuation" /\ DefaultContinue
         /\ file.kind = "chain"
         /\ \/ file.desc.cores # chain.cores
            \/ file.desc.lks # chain.lks
            \/ file.desc.params # chain.params)
        => (pc' = "raised" /\ err' = "RuntimeError" /\ file' = file /\ chain' = chain)]_vars
  /\ []((pc = "raised" /\ err = "RuntimeError") =>
          /\ DefaultContinue
          /\ ~Has("open_w") /\ ~Has("dump") /\ ~Has("setup")
          /\ ~Has("pool") /\ ~Has("engine")
          /\ chain.setups = 0)

C2_Witness ==
  /\ pc = "raised" /\ err = "RuntimeError"
  /\ file.kind = "chain" /\ file.desc.params # chain.params
  /\ Has("load")

\* the chain's ParameterSet has the caller's names, order and (val, min, max, width)
SameParamsAsCaller ==
  /\ Len(chain.params.keys) = Len(args.params)
  /\ Len(chain.params.values) = Len(args.params)
  /\ \A i \in 1..Len(args.params) :
       /\ chain.params.keys[i] = args.params[i][1]
       /\ chain.params.values[i] = args.params[i][2]

\* C3: in a default-backend run with continue_sampling that loaded a descriptor
\* and got past the comparison, from the descriptor write on (write, setup,
\* sampler start, return) no likelihood module has _simulate true, the dumped
\* descriptor records none as true, and the chain's ParameterSet is the caller's.
C3_ContinuationForcesSimulateOff ==
  (DefaultContinue /\ Has("load") /\ (pc = "write" \/ Has("open_w"))) =>
     /\ \A i \in 1..Len(chain.lks) : chain.lks[i] # "true"
     /\ Len(chain.lks) = Len(args.likelihood_modules)
     /\ SameParamsAsCaller
     /\ Has("dump") => /\ \A i \in 1..Len(file.desc.lks) : file.desc.lks[i] # "true"
                       /\ file.desc.params = chain.params

C3_Witness ==
  /\ DefaultContinue /\ Has("load") /\ Has("dump") /\ Has("engine")
  /\ args.likelihood_modules = <<"true", "true">>

\* C4 as claimed: in a fresh default-backend run (no descriptor file), at the
\* descriptor write every likelihood module's _simulate is what the caller
\* passed, for either value of continue_sampling.
C4_FreshRunKeepsFlags ==
  (InCall /\ DefaultBackend(args) /\ pc = "write" /\ file.kind = "absent") =>
     chain.lks = args.likelihood_modules

\* C4 amended: in a fresh default-backend run, with continue_sampling false no
\* flag is changed before the descriptor write; with continue_sampling true every
\* flag that was true is false at the descriptor write and no other flag changed.
C4_FreshRunFlags ==
  (InCall /\ DefaultBackend(args) /\ pc = "write" /\ file.kind = "absent") =>
     /\ Len(chain.lks) = Len(args.likelihood_modules)
     /\ \A i \in 1..Len(chain.lks) :
          IF args.continue_sampling /\ args.likelihood_modules[i] = "true"
          THEN chain.lks[i] = "false"
          ELSE chain.lks[i] = args.likelihood_modules[i]

C4_Witness ==
  /\ DefaultContinue /\ pc = "write" /\ file.kind = "absent"
  /\ args.likelihood_modules = <<"absent", "true">>
  /\ chain.lks = <<"absent", "false">>

\* C5: whenever an engine handed a point to the nested-sampling likelihood closure
\* or to the alternative-ensemble posterior closure and build_model_data or
\* computeLikelihoods raised ParameterError, the closure returned -inf and no
\* exception reached the engine.
C5_ParameterErrorAbsorbed ==
  (ev.n > 0 /\ (ev.build = "ParameterError" \/ ev.comp = "ParameterError")) =>
     /\ ev.ret = "-inf"
     /\ err # "Exception"
     /\ pc # "raised" \/ err = "ImportError"

C5_Witness ==
  /\ args.use_zeus /\ ev.n > 0 /\ ev.build = "ParameterError" /\ ev.ret = "-inf"
  /\ pc = "done"

\* coordinate i of the last point is outside the caller's closed [min, max]
OutOfRange(i) ==
  \/ ev.p[i] < args.params[i][2][2]
  \/ ev.p[i] > args.params[i][2][3]

\* C6: in the alternative-ensemble backend, a point with some coordinate outside
\* its [min, max] gets -inf without a call of the likelihood closure or of
\* build_model_data (both counters unchanged); a point with every coordinate inside
\* is passed to the likelihood closure exactly once.
C6_PriorShortCircuits ==
  (InCall /\ args.use_zeus /\ ev.n > 0) =>
     IF \E i \in 1..Len(ev.p) : OutOfRange(i)
     THEN /\ ev.ret = "-inf"
          /\ ev.lik = ev.lik0 /\ ev.sim = ev.sim0
          /\ ev.build = "notcalled" /\ ev.comp = "notcalled"
     ELSE /\ ev.lik = ev.lik0 + 1
          /\ ev.build # "notcalled"

C6_Witness ==
  /\ args.use_zeus /\ ev.n = MaxEvals /\ Len(ev.p) = 2
  /\ ~OutOfRange(1) /\ ev.p[2] < args.params[2][2][2]
  /\ ev.ret = "-inf" /\ ev.sim = ev.sim0

\* C7 as claimed: in the default backend a pool is constructed only when the
\* caller supplied none; with a caller's pool no pool is constructed and the
\* sampler gets the caller's pool.
C7_PoolBuiltOnlyWhenMissing ==
  (InCall /\ DefaultBackend(args) /\ Has("engine")) =>
     IF opts.pool = "caller"
     THEN ~Has("pool") /\ pool = "caller"
     ELSE Count("pool") = 1 /\ pool = "new"

\* C8 as claimed: a nested-sampling call whose dependency imports and whose engine
\* does not fail never ends in another error, returns 1, and has its MultiNest
\* subdirectory in place when the engine is invoked, whatever directories existed
\* at the start.
C8_MultinestCreatesSubdir ==
  (InCall /\ args.use_multinest /\ ~args.use_zeus) =>
     /\ (pc = "raised" => err \in {"ImportError", "SetupError"})
     /\ (pc = "done" => ret = "1")
     /\ (Has("engine") => (datadir = OutDir \o <<"MultiNest">> /\ datadir \in dirs))

\* C9: once run_mcmc is past validation and the continuation check, the effects
\* come in the order assemble, one descriptor write attempt, one setup call,
\* engine: an engine is invoked only after exactly one assembly, one write attempt
\* and one setup call, in that order; a write attempt always leads to the setup
\* call, whether or not it failed; and a call that ends in an error after a
\* failed write had already called setup.
C9_AssembleWriteSetupEngine ==
  /\ [](/\ Count("assemble") <= 1 /\ Count("open_w") <= 1
        /\ Count("setup") <= 1 /\ Count("engine") <= 1
        /\ (Has("open_w") => (Has("assemble") /\ First("assemble") < First("open_w")))
        /\ (Has("setup") => (Has("open_w") /\ First("open_w") < First("setup")))
        /\ (Has("engine") =>
              /\ Has("setup") /\ First("setup") < First("engine")
              /\ chain.setups = 1)
        /\ ((Has("open_w") /\ pc = "raised") => Has("setup")))
  /\ [][(pc = "write") => (pc' = "setup" /\ err' = "none" /\ chain'.setups = 0)]_vars

C9_Witness ==
  /\ Has("engine") /\ Has("open_w") /\ ~Has("dump")
  /\ args.use_multinest /\ pc = "done"

\* C10 as claimed: a default-backend call with continue_sampling that follows a
\* default-backend call with continue_sampling, the same core modules, likelihood
\* modules and params, whose descriptor dump succeeded, does not raise the
\* continuation-mismatch error.
C10_SameInputsResume ==
  (DefaultContinue /\ pc = "raised" /\ err = "RuntimeError") =>
     ~(/\ prev.cores = args.core_modules
       /\ prev.lks = args.likelihood_modules
       /\ prev.params = args.params)

====
